---- MODULE Spec2Model ----
(***************************************************************************)
(* Job lifecycle of yt_downloader.py: the videos table, discovery insert,  *)
(* single-video download, the batch runner and bulk delete.                *)
(*                                                                         *)
(* Python strings are modelled as sequences of one-character strings, so   *)
(* that regular expressions, strip(), lower(), slicing and join are        *)
(* computed and not assumed.  SQL NULL / Python None is the value NULL.    *)
(* The surrogate key id and scraped_at are not modelled: rows are kept in  *)
(* a sequence in insertion (rowid) order.                                  *)
(***************************************************************************)
EXTENDS Integers, Sequences, FiniteSets, TLC

NULL == <<"NULL">>

(***************************************************************************)
(* Bounds of the model.                                                    *)
(***************************************************************************)
\* most output lines a download subprocess prints
MaxLines == 11
\* characters in one output line of a failing download
LineLen == 60
\* video links on one channel page
MaxLinks == 2
\* longest of the short filenames typed at the prompt
MaxShort == 3

(***************************************************************************)
(* Program constants.                                                      *)
(***************************************************************************)
IdLen == 11
TailLines == 10
MaxErrLen == 500
MaxNameLen == 200

(***************************************************************************)
(* String helpers.                                                         *)
(***************************************************************************)
Take(s, n) == SubSeq(s, 1, IF Len(s) < n THEN Len(s) ELSE n)

LastN(s, n) == SubSeq(s, IF Len(s) > n THEN Len(s) - n + 1 ELSE 1, Len(s))

RECURSIVE Join(_)
Join(lines) == IF lines = <<>> THEN <<>> ELSE Head(lines) \o Join(Tail(lines))

UpperCase == <<"A", "B", "C", "D", "E", "F", "G", "H", "I", "J", "K", "L", "M",
               "N", "O", "P", "Q", "R", "S", "T", "U", "V", "W", "X", "Y", "Z">>
LowerCase == <<"a", "b", "c", "d", "e", "f", "g", "h", "i", "j", "k", "l", "m",
               "n", "o", "p", "q", "r", "s", "t", "u", "v", "w", "x", "y", "z">>
Digits == {"0", "1", "2", "3", "4", "5", "6", "7", "8", "9"}

Range(s) == {s[i] : i \in DOMAIN s}

LowerChar(c) ==
    IF \E i \in DOMAIN UpperCase : UpperCase[i] = c
    THEN LowerCase[CHOOSE i \in DOMAIN UpperCase : UpperCase[i] = c]
    ELSE c

\* str.lower()
Lower(s) == [i \in DOMAIN s |-> LowerChar(s[i])]

Whitespace == {" ", "\t", "\n", "\r"}

RECURSIVE LStrip(_)
LStrip(s) == IF s # <<>> /\ Head(s) \in Whitespace THEN LStrip(Tail(s)) ELSE s

RECURSIVE RStrip(_)
RStrip(s) ==
    IF s # <<>> /\ s[Len(s)] \in Whitespace
    THEN RStrip(SubSeq(s, 1, Len(s) - 1))
    ELSE s

\* str.strip()
Strip(s) == RStrip(LStrip(s))

\* s[i..] starts with p
StartsAt(s, i, p) ==
    /\ i + Len(p) - 1 <= Len(s)
    /\ \A k \in DOMAIN p : s[i + k - 1] = p[k]

Contains(s, p) == \E i \in 1..Len(s) : StartsAt(s, i, p)

\* Python truthiness of an optional string
Truthy(s) == s # NULL /\ s # <<>>

(***************************************************************************)
(* Identity extractor and filename sanitization.                           *)
(***************************************************************************)
IdChars == Range(UpperCase) \cup Range(LowerCase) \cup Digits \cup {"_", "-"}

\* the regular expression v=([a-zA-Z0-9_-]{11}) matches at position i
IdMatchAt(url, i) ==
    /\ i + 1 + IdLen <= Len(url)
    /\ url[i] = "v"
    /\ url[i + 1] = "="
    /\ \A k \in 1..IdLen : url[i + 1 + k] \in IdChars

\* re.search: the leftmost position from i on where it matches, 0 if none
RECURSIVE FirstIdMatch(_, _)
FirstIdMatch(url, i) ==
    IF i + 1 + IdLen > Len(url) THEN 0
    ELSE IF IdMatchAt(url, i) THEN i
    ELSE FirstIdMatch(url, i + 1)

extract_video_id(url) ==
    LET i == FirstIdMatch(url, 1)
    IN  IF i = 0 THEN NULL ELSE SubSeq(url, i + 2, i + 1 + IdLen)

ReservedChars == {"<", ">", ":", "\"", "/", "\\", "|", "?", "*"}

NotReserved(c) == c \notin ReservedChars

\* the cut made before the whitespace is trimmed
sanitize_cut_first(filename) == Strip(Take(SelectSeq(filename, NotReserved), MaxNameLen))

sanitize_filename(filename) ==
    Take(Strip(SelectSeq(filename, NotReserved)), MaxNameLen)

(***************************************************************************)
(* The videos table (_init_db) and the statements run against it.          *)
(***************************************************************************)
NewRow(url, vid, channel) ==
    [video_url |-> url, video_id |-> vid, title |-> NULL,
     channel_url |-> channel, status |-> "pending", download_path |-> NULL,
     custom_filename |-> NULL, downloaded_at |-> NULL, error_msg |-> NULL]

\* the table without the UNIQUE constraint on video_url
IntegrityErrorNoUnique(store, url, vid) == url = NULL \/ vid = NULL

\* video_url TEXT UNIQUE NOT NULL, video_id TEXT NOT NULL
IntegrityError(store, url, vid) ==
    \/ url = NULL
    \/ vid = NULL
    \/ \E i \in DOMAIN store : store[i].video_url = url

\* INSERT OR REPLACE: a URL found again takes the place of its row
RECURSIVE add_videos_replace(_, _, _)
add_videos_replace(store, video_urls, channel_url) ==
    IF video_urls = <<>>
    THEN [videos |-> store, added |-> 0]
    ELSE LET url == Head(video_urls)
             video_id == extract_video_id(url)
             fresh == NewRow(url, video_id, channel_url)
             dup == \E i \in DOMAIN store : store[i].video_url = url
             rest == add_videos_replace(
                         IF video_id = NULL THEN store
                         ELSE IF dup
                         THEN [i \in DOMAIN store |->
                                  IF store[i].video_url = url THEN fresh
                                  ELSE store[i]]
                         ELSE Append(store, fresh),
                         Tail(video_urls), channel_url)
         IN  [videos |-> rest.videos,
              added |-> rest.added + (IF dup \/ video_id = NULL THEN 0 ELSE 1)]

RECURSIVE add_videos_to_db(_, _, _)
add_videos_to_db(store, video_urls, channel_url) ==
    IF video_urls = <<>>
    THEN [videos |-> store, added |-> 0]
    ELSE LET url == Head(video_urls)
             video_id == extract_video_id(url)
             dup == IntegrityError(store, url, video_id)
             rest == add_videos_to_db(
                         IF dup THEN store
                         ELSE Append(store, NewRow(url, video_id, channel_url)),
                         Tail(video_urls), channel_url)
         IN  [videos |-> rest.videos,
              added |-> rest.added + (IF dup THEN 0 ELSE 1)]

\* the pending rows of every scope
PendingInAnyScope(store, channel_url) ==
    SelectSeq(store, LAMBDA row : row.status = "pending")

PendingIn(store, channel_url) ==
    LET Wanted(row) ==
            /\ row.status = "pending"
            /\ (Truthy(channel_url) => row.channel_url = channel_url)
    IN  SelectSeq(store, Wanted)

\* the pending rows read newest first
get_pending_newest_first(store, channel_url) ==
    LET rows == PendingIn(store, channel_url)
    IN  [i \in DOMAIN rows |->
            [video_url |-> rows[Len(rows) + 1 - i].video_url,
             video_id |-> rows[Len(rows) + 1 - i].video_id]]

get_pending_videos(store, channel_url) ==
    LET rows == PendingIn(store, channel_url)
    IN  [i \in DOMAIN rows |->
            [video_url |-> rows[i].video_url, video_id |-> rows[i].video_id]]

\* datetime.now(): the one clock reading of the model
Now == <<"now">>

\* an update that inserts the row it does not find
update_or_insert(store, video_url, status, download_path, title, custom_name, error_msg) ==
    IF \E i \in DOMAIN store : store[i].video_url = video_url
    THEN [i \in DOMAIN store |->
             IF store[i].video_url # video_url THEN store[i]
             ELSE [store[i] EXCEPT !.status = status, !.error_msg = error_msg]]
    ELSE Append(store, [NewRow(video_url, NULL, NULL) EXCEPT !.status = status])

update_video_status(store, video_url, status, download_path, title, custom_name, error_msg) ==
    [i \in DOMAIN store |->
        IF store[i].video_url # video_url THEN store[i]
        ELSE IF status = "completed"
        THEN [store[i] EXCEPT !.status = status,
                              !.download_path = download_path,
                              !.title = title,
                              !.custom_filename = custom_name,
                              !.downloaded_at = Now]
        ELSE [store[i] EXCEPT !.status = status, !.error_msg = error_msg]]

\* WHERE clause of delete_videos: no clause for "all", status=? otherwise
Matches(row, status) == status = "all" \/ row.status = status

CountRows(store, status) ==
    Cardinality({i \in DOMAIN store : Matches(store[i], status)})

DeleteRows(store, status) ==
    LET Kept(row) == ~Matches(row, status)
    IN  SelectSeq(store, Kept)

\* the tail of the output without the cut to 500 characters
ErrorTailUncut(output_lines) == Join(LastN(output_lines, TailLines))

\* "".join(output_lines[-10:])[:500]
ErrorTail(output_lines) == Take(Join(LastN(output_lines, TailLines)), MaxErrLen)

\* str(e)[:500]
FaultText(msg) == Take(msg, MaxErrLen)

(***************************************************************************)
(* Inputs: what the operator types, what the page holds, what yt-dlp does. *)
(***************************************************************************)
Host == <<"h", "t", "t", "p", "s", ":", "/", "/", "w", "w", "w", ".", "y", "o", "u", "t", "u", "b", "e", ".", "c", "o", "m">>
WatchMarker == <<"/", "w", "a", "t", "c", "h", "?", "v", "=">>
ListMarker == <<"&", "l", "i", "s", "t", "=">>
HrefA == <<"/", "w", "a", "t", "c", "h", "?", "v", "=", "A", "A", "A", "A", "A", "A", "A", "A", "A", "A", "A">>
HrefAList == <<"/", "w", "a", "t", "c", "h", "?", "v", "=", "A", "A", "A", "A", "A", "A", "A", "A", "A", "A", "A", "&", "l", "i", "s", "t", "=", "P", "L", "1">>
HrefB == <<"/", "w", "a", "t", "c", "h", "?", "v", "=", "B", "B", "B", "B", "B", "B", "B", "B", "B", "B", "B">>
HrefShort == <<"/", "w", "a", "t", "c", "h", "?", "v", "=", "s", "h", "o", "r", "t">>
HrefAList2 == <<"/", "w", "a", "t", "c", "h", "?", "v", "=", "A", "A", "A", "A", "A", "A", "A", "A", "A", "A", "A", "&", "l", "i", "s", "t", "=", "P", "L", "2", "&", "i", "n", "d", "e", "x", "=", "3">>
HrefPool == {HrefA, HrefAList, HrefAList2, HrefB, HrefShort}

\* the video links one channel page holds
PageLinks == {hs \in SUBSET HrefPool : Cardinality(hs) <= MaxLinks}

UrlA == Host \o HrefA
UrlB == Host \o HrefB
UrlShort == Host \o HrefShort
VideoArgs == {UrlA, UrlB, UrlShort}

Chan1 == <<"@", "c", "1">>
Channels == {Chan1}
SingleVideo == <<"S", "i", "n", "g", "l", "e", " ", "V", "i", "d", "e", "o">>

\* answers to "Do you want to proceed? [y/N]" and "Are you sure? ... [y/N]"
ConfirmResponses == {<<"y">>, <<"Y">>, <<"n">>, <<>>}
\* answers to "Use video title as filename? (y/n/custom)"
NameResponses == {<<"y">>, <<"n">>, <<"c", "u", "s", "t", "o", "m">>}
CustomNames == {<<" ", "m", "y", "|", "c", "l", "i", "p", " ">>}
StatusArgs == {"all", "pending", "completed", "failed"}

VideoPrefix == <<"v", "i", "d", "e", "o", "_">>
Mp4 == <<".", "m", "p", "4">>
DownloadDir == <<"d", "o", "w", "n", "l", "o", "a", "d", "s">>
TimeoutMsg == <<"D", "o", "w", "n", "l", "o", "a", "d", " ", "t", "i", "m", "e", "o", "u", "t">>
TitleStdout == <<"M", "y", "/", "V", "i", "d", "e", "o", ":", " ", "T", "i", "t", "l", "e", "?", "\n">>
FaultMsg == <<"N", "o", " ", "s", "u", "c", "h", " ", "f", "i", "l", "e", ":", " ", "'", "y", "t", "-", "d", "l", "p", "'">>
LongFaultMsg == [i \in 1..(MaxErrLen + 1) |-> "x"]

\* the i-th output line of a download: LineLen characters, newline included
OutputLine(i) == [j \in 1..LineLen |-> IF j = LineLen THEN "\n" ELSE LowerCase[i]]
Output(n) == [i \in 1..n |-> OutputLine(i)]

\* how the title query ends: exit code and stdout, a timeout, or a fault
TitleOk == [kind |-> "exit", code |-> 0, text |-> TitleStdout]
TitleExit1 == [kind |-> "exit", code |-> 1, text |-> <<>>]
TitleTimeout == [kind |-> "timeout", code |-> 0, text |-> <<>>]
TitleFault == [kind |-> "fault", code |-> 0, text |-> FaultMsg]
TitleOutcomes == {TitleOk, TitleExit1, TitleTimeout, TitleFault}

\* how the download ends: exit code and output lines, or a fault of Popen
DownloadOk == [kind |-> "exit", code |-> 0, lines |-> Output(1), text |-> <<>>]
DownloadExit1(n) == [kind |-> "exit", code |-> 1, lines |-> Output(n), text |-> <<>>]
DownloadFault(m) == [kind |-> "fault", code |-> 0, lines |-> <<>>, text |-> m]

\* the failing downloads in full: every number of lines, short and long faults
FailOutcomes ==
    {DownloadExit1(n) : n \in 0..MaxLines}
    \cup {DownloadFault(m) : m \in {FaultMsg, LongFaultMsg}}

(***************************************************************************)
(* Discovery: the links of a channel page turned into video URLs.          *)
(***************************************************************************)
FullUrl(href) == IF StartsAt(href, 1, <<"/">>) THEN Host \o href ELSE href

\* re.sub(r"&list=.*", "", full_url): the leftmost &list= from i on, 0 if none
RECURSIVE FirstList(_, _)
FirstList(url, i) ==
    IF i + Len(ListMarker) - 1 > Len(url) THEN 0
    ELSE IF StartsAt(url, i, ListMarker) THEN i
    ELSE FirstList(url, i + 1)

\* a scrape that keeps the links as they are
StripListKeep(url) == url

StripList(url) ==
    LET i == FirstList(url, 1)
    IN  IF i = 0 THEN url ELSE SubSeq(url, 1, i - 1)

\* set(video_urls) after the loop over the links
ScrapedUrls(hrefs) ==
    {StripList(FullUrl(h)) : h \in {x \in hrefs : Contains(x, WatchMarker)}}

\* list(set(...)): the set in any order
ListsOf(S) == {l \in [1..Cardinality(S) -> S] : Range(l) = S}

\* every list a scrape of one page can return
ScrapeLists == UNION {ListsOf(ScrapedUrls(hs)) : hs \in PageLinks}

(***************************************************************************)
(* Playlist enumeration (scrape_playlist_videos).                          *)
(***************************************************************************)
Playlist1 == <<"h", "t", "t", "p", "s", ":", "/", "/", "w", "w", "w", ".", "y", "o", "u", "t", "u", "b", "e", ".", "c", "o", "m", "/", "p", "l", "a", "y", "l", "i", "s", "t", "?", "l", "i", "s", "t", "=", "P", "L", "1">>
Playlists == {Playlist1}

IdA == [i \in 1..IdLen |-> "A"]
IdB == [i \in 1..IdLen |-> "B"]

\* what yt-dlp --print id --flat-playlist writes: one id per line
RECURSIVE IdLines(_)
IdLines(ids) ==
    IF ids = <<>> THEN <<>> ELSE Head(ids) \o <<"\n">> \o IdLines(Tail(ids))

\* the enumerations of a playlist: no entry, one, two in either order, one
\* entry twice, and an empty line between two entries
PlaylistIds ==
    {<<>>, <<IdA>>, <<IdB>>, <<IdA, IdB>>, <<IdB, IdA>>, <<IdA, IdA>>,
     <<IdA, <<>>, IdB>>}
PlaylistStdouts == {IdLines(ids) : ids \in PlaylistIds}

\* how the enumeration ends: exit code and stdout, or the 60-second timeout
EnumOk(text) == [kind |-> "exit", code |-> 0, text |-> text]
EnumExit1 == [kind |-> "exit", code |-> 1, text |-> <<>>]
EnumTimeout == [kind |-> "timeout", code |-> 0, text |-> <<>>]
EnumOutcomes == {EnumOk(t) : t \in PlaylistStdouts} \cup {EnumExit1, EnumTimeout}

\* str.split("\n")
RECURSIVE SplitLines(_, _)
SplitLines(text, line) ==
    IF text = <<>> THEN <<line>>
    ELSE IF Head(text) = "\n" THEN <<line>> \o SplitLines(Tail(text), <<>>)
    ELSE SplitLines(Tail(text), Append(line, Head(text)))

\* the list scrape_playlist_videos returns
scrape_playlist_videos(o) ==
    IF o.kind = "exit" /\ o.code = 0
    THEN LET video_ids == SelectSeq(SplitLines(Strip(o.text), <<>>), Truthy)
         IN  [i \in DOMAIN video_ids |-> Host \o WatchMarker \o video_ids[i]]
    ELSE <<>>

(***************************************************************************)
(* State.                                                                  *)
(***************************************************************************)
VARIABLES
    videos,        \* the videos table, rows in insertion order
    pc,            \* where the downloading command stands
    mode,          \* "batch" (download_all_pending), "single" (--video)
    pending,       \* download_all_pending: the list read by get_pending_videos
    idx,           \* download_all_pending: items of the list already started
    use_title,     \* download_all_pending: its use_title variable
    interactive,   \* download_all_pending: its interactive parameter
    arg_use_title, \* download_all_pending: the use_title it was called with
    cur,           \* download_video: its parameters and locals
    ret,           \* what the last operation reported
    attempted,     \* URLs download_video was called with in this command
    deleting       \* delete_videos waiting at its prompt: status and count

vars == <<videos, pc, mode, pending, idx, use_title, interactive,
          arg_use_title, cur, ret, attempted, deleting>>

NoCall ==
    [video_id |-> NULL, video_url |-> NULL, custom_name |-> NULL,
     use_title |-> FALSE, title |-> NULL, output_path |-> NULL]

Call(video_id, video_url, custom_name, ut) ==
    [video_id |-> video_id, video_url |-> video_url,
     custom_name |-> custom_name, use_title |-> ut,
     title |-> NULL, output_path |-> NULL]

\* no download command is running: its variables do not exist
NoCommand ==
    /\ pc = "idle"
    /\ mode = "none"
    /\ pending = <<>>
    /\ idx = 0
    /\ use_title = TRUE
    /\ interactive = FALSE
    /\ arg_use_title = TRUE
    /\ cur = NoCall
    /\ attempted = <<>>

\* no delete_videos is waiting for an answer
NoDelete == [status |-> "none", count |-> 0]

Init ==
    /\ videos = <<>>
    /\ NoCommand
    /\ deleting = NoDelete
    /\ ret = [op |-> "init"]

loopVars == <<pending, idx, use_title, interactive, arg_use_title>>
runVars == <<pc, mode, loopVars, cur, attempted>>

(***************************************************************************)
(* Commands run one after another; --delete alone may also be run from     *)
(* another terminal while a download command is under way.                 *)
(***************************************************************************)

(***************************************************************************)
(* --scrape: scrape_channel_videos, then add_videos_to_db.                 *)
(***************************************************************************)
Scrape(channel_url, video_urls) ==
    /\ pc = "idle"
    /\ UNCHANGED deleting
    /\ LET r == add_videos_to_db(videos, video_urls, channel_url)
       IN  /\ videos' = r.videos
           /\ ret' = [op |-> "add", found |-> Len(video_urls), added |-> r.added]
    /\ UNCHANGED runVars

(***************************************************************************)
(* The interactive naming prompt (main and download_all_pending).          *)
(***************************************************************************)
\* use_title after the prompt
PromptUseTitle(ut, inter, choice) ==
    IF inter /\ Lower(choice) = <<"n">> THEN FALSE ELSE ut

\* custom_name after the prompt
PromptCustom(inter, choice, name) ==
    IF inter /\ Lower(choice) = <<"c", "u", "s", "t", "o", "m">> THEN name
    ELSE NULL

(***************************************************************************)
(* --video: a single video is inserted and downloaded.                     *)
(***************************************************************************)
DownloadSingle(video_url, use_id, inter, choice, name) ==
    /\ pc = "idle"
    /\ UNCHANGED deleting
    /\ LET video_id == extract_video_id(video_url)
       IN  IF video_id = NULL
           THEN /\ ret' = [op |-> "invalid"]
                /\ UNCHANGED <<videos, runVars>>
           ELSE /\ videos' = add_videos_to_db(videos, <<video_url>>, SingleVideo).videos
                /\ cur' = Call(video_id, video_url,
                               PromptCustom(inter, choice, name),
                               PromptUseTitle(~use_id, inter, choice))
                /\ pc' = "fetch"
                /\ mode' = "single"
                /\ attempted' = <<video_url>>
                /\ ret' = [op |-> "single"]
                /\ UNCHANGED loopVars

\* a loop that stops at the first download that fails
AfterDownloadStopOnFail(m, ok) == IF m = "batch" /\ ok THEN "loop" ELSE "idle"

(***************************************************************************)
(* download_video, in two steps: the title query, then the download.       *)
(***************************************************************************)
\* where control goes when download_video returns
AfterDownload(m, ok) == IF m = "batch" THEN "loop" ELSE "idle"

\* download_video returns (ok, value) to its caller
Return(ok, value) ==
    /\ ret' = [op |-> "download", ok |-> ok, value |-> value]
    /\ pc' = AfterDownload(mode, ok)
    /\ cur' = NoCall
    /\ IF mode = "batch"
       THEN UNCHANGED <<mode, attempted>>
       ELSE mode' = "none" /\ attempted' = <<>>

\* the title preferred to the custom name
FilenameTitleFirst(custom_name, ut, title, video_id) ==
    IF ut THEN sanitize_filename(title)
    ELSE IF Truthy(custom_name) THEN sanitize_filename(custom_name)
    ELSE video_id

\* the filename chosen at lines 180-185
Filename(custom_name, ut, title, video_id) ==
    IF Truthy(custom_name) THEN sanitize_filename(custom_name)
    ELSE IF ut THEN sanitize_filename(title)
    ELSE video_id

\* self.download_dir / f"{filename}.mp4"
OutputPath(filename) == DownloadDir \o <<"/">> \o filename \o Mp4

\* an except clause or the else branch of download_video: mark failed,
\* return (False, error)
Fail(error) ==
    /\ videos' = update_video_status(videos, cur.video_url, "failed", NULL, NULL, NULL, error)
    /\ Return(FALSE, error)

FetchTitle(o) ==
    /\ pc = "fetch"
    /\ UNCHANGED deleting
    /\ UNCHANGED loopVars
    /\ CASE o.kind = "exit" ->
              LET title == IF o.code = 0 THEN Strip(o.text)
                           ELSE VideoPrefix \o cur.video_id
                  filename == Filename(cur.custom_name, cur.use_title, title,
                                       cur.video_id)
              IN  /\ cur' = [cur EXCEPT !.title = title,
                                        !.output_path = OutputPath(filename)]
                  /\ pc' = "download"
                  /\ ret' = [op |-> "title"]
                  /\ UNCHANGED <<videos, mode, attempted>>
         [] o.kind = "timeout" -> Fail(TimeoutMsg)
         [] o.kind = "fault" -> Fail(FaultText(o.text))

RunDownload(o) ==
    /\ pc = "download"
    /\ UNCHANGED deleting
    /\ UNCHANGED loopVars
    /\ CASE o.kind = "exit" /\ o.code = 0 ->
              /\ videos' = update_video_status(videos, cur.video_url, "completed", cur.output_path, cur.title, cur.custom_name, NULL)
              /\ Return(TRUE, cur.output_path)
         [] o.kind = "exit" /\ o.code # 0 -> Fail(ErrorTail(o.lines))
         [] o.kind = "fault" -> Fail(FaultText(o.text))

\* a prompt that only the answer "n" refuses
BatchConfirmedUnlessNo(choice) == Lower(choice) # <<"n">>

(***************************************************************************)
(* download_all_pending and the --download command.                        *)
(***************************************************************************)
\* the answer that lets the batch proceed (lines 310-311)
BatchConfirmed(choice) == Lower(choice) = <<"y">>

download_all_pending(ut, inter, channel_url, skip_confirmation, choice) ==
    LET vs == get_pending_videos(videos, channel_url)
    IN  IF vs = <<>>
        THEN /\ ret' = [op |-> "batch", outcome |-> "none"]
             /\ UNCHANGED <<videos, runVars>>
        ELSE IF ~skip_confirmation /\ ~BatchConfirmed(choice)
        THEN /\ ret' = [op |-> "batch", outcome |-> "aborted"]
             /\ UNCHANGED <<videos, runVars>>
        ELSE /\ ret' = [op |-> "batch", outcome |-> "started"]
             /\ mode' = "batch"
             /\ pc' = "loop"
             /\ pending' = vs
             /\ idx' = 0
             /\ use_title' = ut
             /\ arg_use_title' = ut
             /\ interactive' = inter
             /\ UNCHANGED <<videos, cur, attempted>>

Download(use_id, inter, skip_confirmation, choice) ==
    /\ pc = "idle"
    /\ UNCHANGED deleting
    /\ download_all_pending(~use_id, inter, NULL, skip_confirmation, choice)

\* one turn of the for loop: the prompt, then the call of download_video
LoopItem(choice, name) ==
    /\ pc = "loop"
    /\ UNCHANGED deleting
    /\ idx < Len(pending)
    /\ LET item == pending[idx + 1]
           ut == PromptUseTitle(use_title, interactive, choice)
       IN  /\ use_title' = ut
           /\ cur' = Call(item.video_id, item.video_url,
                          PromptCustom(interactive, choice, name), ut)
           /\ attempted' = Append(attempted, item.video_url)
    /\ idx' = idx + 1
    /\ pc' = "fetch"
    /\ ret' = [op |-> "item"]
    /\ UNCHANGED <<videos, mode, pending, interactive, arg_use_title>>

\* the for loop is exhausted: download_all_pending returns
LoopDone ==
    /\ pc = "loop"
    /\ UNCHANGED deleting
    /\ idx = Len(pending)
    /\ pc' = "idle"
    /\ mode' = "none"
    /\ pending' = <<>>
    /\ idx' = 0
    /\ use_title' = TRUE
    /\ interactive' = FALSE
    /\ arg_use_title' = TRUE
    /\ cur' = NoCall
    /\ attempted' = <<>>
    /\ ret' = [op |-> "batch_done"]
    /\ UNCHANGED videos

(***************************************************************************)
(* --playlist: the enumeration, the insert under the playlist's URL and    *)
(* download_all_pending with that URL as channel_url.                      *)
(***************************************************************************)
Playlist(playlist_url, o, use_id, inter, skip_confirmation, choice) ==
    /\ pc = "idle"
    /\ UNCHANGED deleting
    /\ LET urls == scrape_playlist_videos(o)
           r == add_videos_to_db(videos, urls, playlist_url)
           vs == get_pending_videos(r.videos, playlist_url)
           Report(outcome) ==
               [op |-> "playlist", outcome |-> outcome, scope |-> playlist_url,
                found |-> Len(urls), added |-> r.added]
       IN  IF urls = <<>>
           THEN /\ ret' = [op |-> "playlist", outcome |-> "empty",
                           scope |-> playlist_url, found |-> 0, added |-> 0]
                /\ UNCHANGED <<videos, runVars>>
           ELSE /\ videos' = r.videos
                /\ IF vs = <<>>
                   THEN /\ ret' = Report("none")
                        /\ UNCHANGED runVars
                   ELSE IF ~skip_confirmation /\ ~BatchConfirmed(choice)
                   THEN /\ ret' = Report("aborted")
                        /\ UNCHANGED runVars
                   ELSE /\ ret' = Report("started")
                        /\ mode' = "batch"
                        /\ pc' = "loop"
                        /\ pending' = vs
                        /\ idx' = 0
                        /\ use_title' = ~use_id
                        /\ arg_use_title' = ~use_id
                        /\ interactive' = inter
                        /\ UNCHANGED <<cur, attempted>>

(***************************************************************************)
(* The process is stopped while a download command is under way.  Every    *)
(* _update_video_status opens its own connection and commits before it     *)
(* returns, so the table keeps what was written; the locals are gone.      *)
(***************************************************************************)
\* a run that kept one transaction open: its writes are rolled back
CrashRollback ==
    /\ pc # "idle"
    /\ videos' = [i \in DOMAIN videos |->
                     IF \E k \in DOMAIN attempted : attempted[k] = videos[i].video_url
                     THEN [videos[i] EXCEPT !.status = "pending"]
                     ELSE videos[i]]
    /\ pc' = "idle"
    /\ mode' = "none"
    /\ pending' = <<>>
    /\ idx' = 0
    /\ use_title' = TRUE
    /\ interactive' = FALSE
    /\ arg_use_title' = TRUE
    /\ cur' = NoCall
    /\ attempted' = <<>>
    /\ ret' = [op |-> "crash"]
    /\ UNCHANGED deleting

Crash ==
    /\ pc # "idle"
    /\ pc' = "idle"
    /\ mode' = "none"
    /\ pending' = <<>>
    /\ idx' = 0
    /\ use_title' = TRUE
    /\ interactive' = FALSE
    /\ arg_use_title' = TRUE
    /\ cur' = NoCall
    /\ attempted' = <<>>
    /\ ret' = [op |-> "crash"]
    /\ UNCHANGED <<videos, deleting>>

\* a prompt that only the answer "n" refuses
DeleteConfirmedUnlessNo(choice) == Lower(choice) # <<"n">>

(***************************************************************************)
(* --delete.                                                               *)
(***************************************************************************)
\* the answer that lets the delete proceed (lines 391-392)
DeleteConfirmed(choice) == Lower(choice) = <<"y">>

\* delete_videos up to its prompt: the count, the return when nothing
\* matches, and with skip_confirmation the DELETE itself
delete_videos(status, skip_confirmation) ==
    LET count == CountRows(videos, status)
    IN  /\ deleting = NoDelete
        /\ UNCHANGED runVars
        /\ IF count = 0
           THEN /\ ret' = [op |-> "delete", outcome |-> "none", count |-> 0]
                /\ UNCHANGED <<videos, deleting>>
           ELSE IF ~skip_confirmation
           THEN /\ ret' = [op |-> "delete", outcome |-> "prompt", count |-> count]
                /\ deleting' = [status |-> status, count |-> count]
                /\ UNCHANGED videos
           ELSE /\ videos' = DeleteRows(videos, status)
                /\ ret' = [op |-> "delete", outcome |-> "deleted", count |-> count]
                /\ UNCHANGED deleting

\* delete_videos from the answer to its prompt on: it reports the count it
\* took before the prompt
DeleteAnswer(choice) ==
    /\ deleting # NoDelete
    /\ deleting' = NoDelete
    /\ UNCHANGED runVars
    /\ IF ~DeleteConfirmed(choice)
       THEN /\ ret' = [op |-> "delete", outcome |-> "aborted", count |-> deleting.count]
            /\ UNCHANGED videos
       ELSE /\ videos' = DeleteRows(videos, deleting.status)
            /\ ret' = [op |-> "delete", outcome |-> "deleted", count |-> deleting.count]

(***************************************************************************)
(* The commands with their inputs.  A prompt that is not shown reads no    *)
(* answer: the answer is then the empty line.                              *)
(***************************************************************************)
NameAnswers(inter) == IF inter THEN NameResponses ELSE {<<>>}
ConfirmAnswers(skip) == IF skip THEN {<<>>} ELSE ConfirmResponses

ScrapeCmd == \E c \in Channels, l \in ScrapeLists : Scrape(c, l)

VideoCmd(urls, UseId, Inter) ==
    \E u \in urls, use_id \in UseId, inter \in Inter :
        \E choice \in NameAnswers(inter), name \in CustomNames :
            DownloadSingle(u, use_id, inter, choice, name)

DownloadCmd(UseId, Inter) ==
    \E use_id \in UseId, inter \in Inter, skip \in BOOLEAN :
        \E choice \in ConfirmAnswers(skip) :
            Download(use_id, inter, skip, choice)

LoopStep ==
    \E choice \in NameAnswers(interactive), name \in CustomNames :
        LoopItem(choice, name)

DeleteCmd(Skip) ==
    \E status \in StatusArgs, skip \in Skip : delete_videos(status, skip)

DeleteReply == \E choice \in ConfirmResponses : DeleteAnswer(choice)

PlaylistCmd ==
    \E p \in Playlists, o \in EnumOutcomes, skip \in BOOLEAN :
        \E choice \in ConfirmAnswers(skip) \ {<<"Y">>, <<"n">>} :
            Playlist(p, o, FALSE, FALSE, skip, choice)

(***************************************************************************)
(* Spec: every command, titles always kept as the name and --delete run    *)
(* with --yes; the title query succeeds or times out, the download exits   *)
(* with 0 or 1.                                                            *)
(***************************************************************************)
Next ==
    \/ ScrapeCmd
    \/ VideoCmd(VideoArgs, {FALSE}, {FALSE})
    \/ \E o \in {TitleOk, TitleTimeout} : FetchTitle(o)
    \/ \E o \in {DownloadOk, DownloadExit1(MaxLines)} : RunDownload(o)
    \/ DownloadCmd({FALSE}, {FALSE})
    \/ LoopStep
    \/ LoopDone
    \/ DeleteCmd({TRUE})

Spec == Init /\ [][Next]_vars

(***************************************************************************)
(* SpecBatch: scrapes and batch runs with every naming input (--use-id,    *)
(* --interactive and the answers to the naming prompt) and every way a     *)
(* title query or a download can end.                                      *)
(***************************************************************************)
NextBatch ==
    \/ ScrapeCmd
    \/ DownloadCmd(BOOLEAN, BOOLEAN)
    \/ LoopStep
    \/ LoopDone
    \/ \E o \in TitleOutcomes : FetchTitle(o)
    \/ \E o \in {DownloadOk, DownloadExit1(MaxLines), DownloadFault(FaultMsg)} :
           RunDownload(o)

SpecBatch == Init /\ [][NextBatch]_vars

(***************************************************************************)
(* SpecFail: one video downloaded again and again with --video, with       *)
(* every failing download: any number of output lines, a short and a long  *)
(* fault message.                                                          *)
(***************************************************************************)
NextFail ==
    \/ VideoCmd({UrlA}, BOOLEAN, {FALSE})
    \/ \E o \in TitleOutcomes : FetchTitle(o)
    \/ \E o \in {DownloadOk} \cup FailOutcomes : RunDownload(o)

SpecFail == Init /\ [][NextFail]_vars

(***************************************************************************)
(* SpecDelete: --delete with and without --yes, its prompt answered while  *)
(* scrapes and single downloads go on in another terminal.                 *)
(***************************************************************************)
NextDelete ==
    \/ ScrapeCmd
    \/ VideoCmd({UrlA, UrlB}, {FALSE}, {FALSE})
    \/ FetchTitle(TitleOk)
    \/ \E o \in {DownloadOk, DownloadExit1(MaxLines)} : RunDownload(o)
    \/ DeleteCmd(BOOLEAN)
    \/ DeleteReply

SpecDelete == Init /\ [][NextDelete]_vars

(***************************************************************************)
(* SpecInsert: scrapes and --video inserts into stores whose rows have     *)
(* been downloaded, with either result, and deleted.                       *)
(***************************************************************************)
NextInsert ==
    \/ ScrapeCmd
    \/ VideoCmd(VideoArgs, {FALSE}, {FALSE})
    \/ FetchTitle(TitleOk)
    \/ \E o \in {DownloadOk, DownloadExit1(0)} : RunDownload(o)
    \/ delete_videos("all", TRUE)

SpecInsert == Init /\ [][NextInsert]_vars

(***************************************************************************)
(* SpecBatchFair: SpecBatch with every subprocess ending and every prompt  *)
(* of the loop answered: a step of the running command that stays possible *)
(* is taken.                                                               *)
(***************************************************************************)
SpecBatchFair ==
    /\ SpecBatch
    /\ WF_vars(LoopStep)
    /\ WF_vars(LoopDone)
    /\ WF_vars(\E o \in TitleOutcomes : FetchTitle(o))
    /\ WF_vars(\E o \in {DownloadOk, DownloadExit1(MaxLines), DownloadFault(FaultMsg)} : RunDownload(o))

(***************************************************************************)
(* SpecCrash: scrapes and batch runs that may be stopped at any point; the *)
(* title query succeeds or times out, the download exits with 0 or 1.      *)
(***************************************************************************)
NextCrash ==
    \/ ScrapeCmd
    \/ DownloadCmd({FALSE}, {FALSE})
    \/ LoopStep
    \/ LoopDone
    \/ \E o \in {TitleOk, TitleTimeout} : FetchTitle(o)
    \/ \E o \in {DownloadOk, DownloadExit1(MaxLines)} : RunDownload(o)
    \/ Crash

SpecCrash == Init /\ [][NextCrash]_vars

(***************************************************************************)
(* SpecName: one video downloaded again and again under custom names and   *)
(* titles of every shape: short strings over a letter, a blank and a       *)
(* reserved character, and strings longer than the filename limit; the     *)
(* download itself fails, so that the table keeps none of the names.       *)
(***************************************************************************)
NameAlphabet == {"a", " ", "/"}
ShortNames == UNION {[1..n -> NameAlphabet] : n \in 0..MaxShort}

\* blank, reserved character, more letters than the limit, blank
LongPadded == <<" ", "/">> \o [i \in 1..(MaxNameLen + 1) |-> "a"] \o <<" ">>
\* a blank that becomes the last character kept
LongSpaced == [i \in 1..(MaxNameLen + 1) |-> IF i = MaxNameLen THEN " " ELSE "a"]
\* as many letters as the limit, reserved characters between them
LongExact == [i \in 1..(2 * MaxNameLen) |-> IF i % 2 = 0 THEN "*" ELSE "b"]
LongNames == {LongPadded, LongSpaced, LongExact}

NameInputs == ShortNames \cup LongNames \cup CustomNames

\* the title query prints the title and a newline
TitleOf(t) == [kind |-> "exit", code |-> 0, text |-> t \o <<"\n">>]
TitleInputs == {TitleOf(t) : t \in LongNames} \cup {TitleOk, TitleExit1}

NamedCmd ==
    \E name \in NameInputs :
        DownloadSingle(UrlA, FALSE, TRUE, <<"c", "u", "s", "t", "o", "m">>, name)

NextName ==
    \/ NamedCmd
    \/ VideoCmd({UrlA}, {FALSE}, {FALSE})
    \/ \E o \in TitleInputs : FetchTitle(o)
    \/ RunDownload(DownloadExit1(0))

SpecName == Init /\ [][NextName]_vars

(***************************************************************************)
(* SpecPlaylist: channel scrapes, single videos and playlist commands over *)
(* the same videos, every title query and download succeeding or failing.  *)
(***************************************************************************)
NextPlaylist ==
    \/ ScrapeCmd
    \/ VideoCmd({UrlA}, {FALSE}, {FALSE})
    \/ PlaylistCmd
    \/ LoopStep
    \/ LoopDone
    \/ FetchTitle(TitleOk)
    \/ \E o \in {DownloadOk, DownloadExit1(0)} : RunDownload(o)

SpecPlaylist == Init /\ [][NextPlaylist]_vars

(***************************************************************************)
(* Claims.                                                                 *)
(***************************************************************************)
Rows == Range(videos)
RowsAfter == Range(videos')
Terminal == {"completed", "failed"}
Affirmative == {<<"y">>, <<"Y">>}

\* C1: every stored job is completed if and only if its output_path is set
\* and its error_detail is absent.
C1_CompletedIffPathOnly ==
    \A row \in Rows :
        row.status = "completed"
            <=> (row.download_path # NULL /\ row.error_msg = NULL)

\* C2: every stored job is failed if and only if its error_detail is set and
\* its output_path is absent.
C2_FailedIffErrorOnly ==
    \A row \in Rows :
        row.status = "failed"
            <=> (row.error_msg # NULL /\ row.download_path = NULL)

\* C3: a job that is completed or failed keeps that status in every step
\* that does not delete it.
C3_TerminalStatusStays ==
    [][\A old \in Rows, new \in RowsAfter :
          (old.video_url = new.video_url /\ old.status \in Terminal)
              => new.status = old.status]_vars

\* C4: a batch run without skip_confirmation over at least one pending job
\* that is answered with anything but the affirmative answer changes no
\* job and attempts no download.
C4_RefusedBatchAttemptsNothing ==
    [][\A use_id \in BOOLEAN, inter \in BOOLEAN, choice \in ConfirmResponses :
          (/\ choice \notin Affirmative
           /\ \E row \in Rows : row.status = "pending"
           /\ Download(use_id, inter, FALSE, choice))
              => (videos' = videos /\ pc' = "idle" /\ cur' = NoCall
                  /\ attempted' = <<>>)]_vars

C4_Witness ==
    /\ ret.op = "batch"
    /\ ret.outcome = "aborted"
    /\ pc = "idle"
    /\ \E row \in Rows : row.status = "pending"
    /\ \E row \in Rows : row.status = "failed"

\* C5: no two stored jobs share a source_url, and once a list of URLs has
\* been inserted, inserting it again (under any scope) leaves the stored
\* jobs as they are and reports zero newly added jobs.
C5_InsertIdempotent ==
    /\ [](\A i \in DOMAIN videos, j \in DOMAIN videos :
             videos[i].video_url = videos[j].video_url => i = j)
    /\ [][\A c \in Channels, l \in ScrapeLists :
             (ret'.op = "add" /\ ret'.found = Len(l) /\ Scrape(c, l)) =>
                 \A c2 \in Channels \cup {SingleVideo} :
                     add_videos_to_db(videos', l, c2)
                         = [videos |-> videos', added |-> 0]]_vars

C5_Witness ==
    /\ ret.op = "add"
    /\ ret.found = 2
    /\ ret.added = 0
    /\ {row.video_url : row \in Rows} = {UrlA, UrlB}

\* C6: a delete that goes ahead removes exactly the jobs with the given
\* status (every job for "all"), leaves the other jobs as they were, and
\* reports the number of rows it removed.
C6_DeleteExactlyByStatus ==
    [][/\ \A status \in StatusArgs :
            (delete_videos(status, TRUE) /\ ret'.outcome = "deleted")
                => (/\ videos' = SelectSeq(videos, LAMBDA row :
                                     status # "all" /\ row.status # status)
                    /\ ret'.count = Len(videos) - Len(videos'))
       /\ \A choice \in ConfirmResponses :
            (DeleteAnswer(choice) /\ ret'.outcome = "deleted")
                => (/\ videos' = SelectSeq(videos, LAMBDA row :
                                     deleting.status # "all"
                                         /\ row.status # deleting.status)
                    /\ ret'.count = Len(videos) - Len(videos'))]_vars

\* the characters of lines[first..j-1] taken together
RECURSIVE CharsBefore(_, _, _)
CharsBefore(lines, first, j) ==
    IF j <= first THEN 0
    ELSE Len(lines[j - 1]) + CharsBefore(lines, first, j - 1)

\* C7: a download that exits with a non-zero code marks the job failed,
\* stores as error_detail the last 10 output lines (all of them if fewer)
\* concatenated and cut to 500 characters, and reports failure; no stored
\* error_detail is ever longer than 500 characters.
C7_FailureStoresOutputTail ==
    /\ [](\A row \in Rows : row.error_msg # NULL => Len(row.error_msg) <= 500)
    /\ [][\A o \in FailOutcomes :
             (o.kind = "exit" /\ RunDownload(o)) =>
                 LET n == Len(o.lines)
                     first == IF n > 10 THEN n - 10 + 1 ELSE 1
                     total == CharsBefore(o.lines, first, n + 1)
                     len == IF total > 500 THEN 500 ELSE total
                     error == ret'.value
                 IN  /\ ret'.ok = FALSE
                     /\ Len(error) = len
                     /\ \A j \in first..n :
                          LET before == CharsBefore(o.lines, first, j)
                          IN  \A p \in 1..Len(o.lines[j]) :
                                  before + p <= len
                                      => error[before + p] = o.lines[j][p]
                     /\ \E i \in DOMAIN videos : videos[i].video_url = cur.video_url
                     /\ \A i \in DOMAIN videos :
                          videos[i].video_url = cur.video_url
                              => (/\ videos'[i].status = "failed"
                                  /\ videos'[i].error_msg = error)]_vars

C7_Witness ==
    /\ ret.op = "download"
    /\ ret.ok = FALSE
    /\ Len(ret.value) = 500
    /\ ret.value[1] = OutputLine(MaxLines - 9)[1]
    /\ ret.value[500] = OutputLine(MaxLines - 1)[500 - 8 * LineLen]
    /\ \E row \in Rows : row.status = "failed" /\ row.error_msg = ret.value

\* C8: in an interactive batch run every item is downloaded with the naming
\* its own answer gives, starting from the use_title setting the run was
\* called with and from no custom name.
C8_NamingChoicePerItem ==
    [][\A choice \in NameResponses, name \in CustomNames :
          LoopItem(choice, name) =>
              (/\ cur'.use_title
                    = (IF interactive /\ choice = <<"n">> THEN FALSE
                       ELSE arg_use_title)
               /\ cur'.custom_name
                    = (IF interactive /\ choice = <<"c", "u", "s", "t", "o", "m">>
                       THEN name ELSE NULL))]_vars

\* C9: in a confirmed batch run the jobs of the pending list are attempted
\* one by one in order, a failed download hands control back to the loop,
\* and the run ends only when every job of the list has been attempted.
C9_FailureDoesNotAbortBatch ==
    /\ [](mode = "batch" =>
            /\ idx <= Len(pending)
            /\ attempted = [i \in 1..idx |-> pending[i].video_url])
    /\ [][(mode = "batch" /\ pc \in {"fetch", "download"} /\ cur' = NoCall /\ ~ret'.ok)
             => (pc' = "loop" /\ pending' = pending /\ idx' = idx)]_vars
    /\ [][(mode = "batch" /\ pc # "idle" /\ pc' = "idle")
             => attempted = [i \in DOMAIN pending |-> pending[i].video_url]]_vars

C9_Witness ==
    /\ mode = "batch"
    /\ pc = "fetch"
    /\ Len(attempted) = 2
    /\ \E row \in Rows : row.video_url = attempted[1] /\ row.status = "failed"

\* C10: a discovered URL in which no content identifier is found is still
\* stored by the insert, as a pending job without content_id, and counts as
\* newly added.
C10_UrlWithoutIdStored ==
    [][\A c \in Channels, l \in ScrapeLists :
          (ret'.op = "add" /\ ret'.found = Len(l) /\ Scrape(c, l)) =>
              /\ \A k \in DOMAIN l :
                   extract_video_id(l[k]) = NULL =>
                       \E row \in RowsAfter :
                           /\ row.video_url = l[k]
                           /\ row.status = "pending"
                           /\ row.video_id = NULL
              /\ videos = <<>> => ret'.added = Len(l)]_vars

\* C11: a title query that fails (non-zero exit, or its 30-second timeout)
\* is recovered with the synthetic title "video_<content_id>": the download
\* is still started and the job is not marked failed.
C11_TitleFailureRecovered ==
    [][\A o \in {TitleExit1, TitleTimeout} :
          FetchTitle(o) =>
              (/\ pc' = "download"
               /\ cur'.title = VideoPrefix \o cur.video_id
               /\ videos' = videos)]_vars

\* the status stored for a URL after the step
StatusAfter(url) ==
    {row.status : row \in {r \in RowsAfter : r.video_url = url}}

C13_DeleteGated ==
    /\ [][\A status \in StatusArgs, skip \in BOOLEAN :
             delete_videos(status, skip) =>
                 /\ CountRows(videos, status) = 0
                        => (videos' = videos /\ deleting' = NoDelete)
                 /\ ~skip => videos' = videos]_vars
    /\ [][\A choice \in ConfirmResponses :
             (choice \notin Affirmative /\ DeleteAnswer(choice))
                 => videos' = videos]_vars
    /\ [][Len(videos') < Len(videos) =>
             \/ \E status \in StatusArgs : delete_videos(status, TRUE)
             \/ \E choice \in Affirmative : DeleteAnswer(choice)]_vars

C13_Witness ==
    /\ ret.op = "delete"
    /\ ret.outcome = "aborted"
    /\ ret.count = 2
    /\ Len(videos) = 2
    /\ deleting = NoDelete

\* the video id as a link carries it
IdOfA == SubSeq(HrefA, Len(WatchMarker) + 1, Len(HrefA))

\* C14: a page that links the same video with and without a playlist
\* parameter yields one URL for it, stored as one job whose content_id is
\* the video's; every URL a scrape returns is a link of the page up to,
\* and without, its &list= parameter, and no stored URL of a discovered
\* job carries one.
C14_PlaylistParameterStripped ==
    /\ \A hs \in PageLinks :
           /\ (hs # {} /\ hs \subseteq {HrefA, HrefAList, HrefAList2})
                  => ScrapedUrls(hs) = {UrlA}
           /\ \A u \in ScrapedUrls(hs) :
                  /\ ~Contains(u, ListMarker)
                  /\ \E h \in hs :
                         LET full == Host \o h
                         IN  /\ Len(u) <= Len(full)
                             /\ SubSeq(full, 1, Len(u)) = u
                             /\ \/ Len(u) = Len(full)
                                \/ StartsAt(full, Len(u) + 1, ListMarker)
    /\ \A row \in Rows : ~Contains(row.video_url, ListMarker)
    /\ \A i \in DOMAIN videos, j \in DOMAIN videos :
           videos[i].video_id = videos[j].video_id => i = j
    /\ \A row \in Rows : row.video_url = UrlA => row.video_id = IdOfA

C14_Witness ==
    /\ ret.op = "add"
    /\ ret.found = 1
    /\ ret.added = 1
    /\ videos = <<NewRow(UrlA, IdOfA, Chan1)>>
    /\ <<UrlA>> \in ListsOf(ScrapedUrls({HrefAList, HrefA}))

\* the characters the claim lists
ListedChars == {"<", ">", ":", "\"", "/", "\\", "|", "?", "*"}

\* s without its leading and trailing whitespace
Trimmed(s) ==
    LET inked == {k \in DOMAIN s : s[k] \notin Whitespace}
    IN  IF inked = {} THEN <<>>
        ELSE SubSeq(s, CHOOSE k \in inked : \A m \in inked : k <= m,
                       CHOOSE k \in inked : \A m \in inked : m <= k)

\* the filename inside an output path
NameIn(path) == SubSeq(path, Len(DownloadDir) + 2, Len(path) - Len(Mp4))

\* C15: the sanitized filename holds none of the characters < > : " / \ | ? *
\* and at most 200 characters; it is the input without those characters,
\* then trimmed of leading and trailing whitespace, then cut to its first
\* 200 characters.
C15_SanitizedFilename ==
    [][\A o \in TitleInputs :
          (FetchTitle(o) /\ (Truthy(cur.custom_name) \/ cur.use_title)) =>
              LET input == IF Truthy(cur.custom_name) THEN cur.custom_name
                           ELSE cur'.title
                  kept == Trimmed(SelectSeq(input, LAMBDA c : c \notin ListedChars))
                  name == NameIn(cur'.output_path)
              IN  /\ \A k \in DOMAIN name : name[k] \notin ListedChars
                  /\ Len(name) <= 200
                  /\ name = SubSeq(kept, 1, IF Len(kept) > 200 THEN 200 ELSE Len(kept))]_vars

C15_Witness ==
    /\ pc = "download"
    /\ cur.custom_name = LongPadded
    /\ NameIn(cur.output_path) = [i \in 1..200 |-> "a"]

\* C16: the file is named after the custom name when one is supplied,
\* whatever use_title is; otherwise after the fetched or fallback title
\* when use_title is true; otherwise after the content_id.  The path
\* recorded on a completed job is the output directory, that filename and
\* the extension .mp4.
C16_FilenamePriority ==
    /\ [][\A o \in TitleOutcomes :
             (o.kind = "exit" /\ FetchTitle(o)) =>
                 LET title == IF o.code = 0 THEN Trimmed(o.text)
                              ELSE <<"v", "i", "d", "e", "o", "_">> \o cur.video_id
                     chosen == IF cur.custom_name \notin {NULL, <<>>}
                               THEN sanitize_filename(cur.custom_name)
                               ELSE IF cur.use_title THEN sanitize_filename(title)
                               ELSE cur.video_id
                 IN  cur'.output_path
                         = DownloadDir \o <<"/">> \o chosen \o <<".", "m", "p", "4">>]_vars
    /\ [][(pc = "download" /\ cur' = NoCall /\ ret'.ok) =>
             /\ ret'.value = cur.output_path
             /\ \A i \in DOMAIN videos :
                    videos[i].video_url = cur.video_url
                        => (/\ videos'[i].status = "completed"
                            /\ videos'[i].download_path = cur.output_path)]_vars

C16_Witness ==
    /\ ret.op = "download"
    /\ ret.ok
    /\ ret.value = DownloadDir \o <<"/", "m", "y", "c", "l", "i", "p", ".", "m", "p", "4">>
    /\ \E row \in Rows :
           /\ row.status = "completed"
           /\ row.download_path = ret.value
           /\ row.title # NULL
           /\ row.custom_filename = <<" ", "m", "y", "|", "c", "l", "i", "p", " ">>

\* C17: an insert leaves every job already stored exactly as it was,
\* status, scope_reference, content_id, output_path and error_detail
\* included, also when its URL is found again under another scope.
C17_RediscoveryChangesNothing ==
    [][ret'.op \in {"add", "single"} =>
          /\ Len(videos') >= Len(videos)
          /\ \A i \in DOMAIN videos : videos'[i] = videos[i]
          /\ \A i \in DOMAIN videos' \ DOMAIN videos :
                 \A j \in DOMAIN videos :
                     videos'[i].video_url # videos[j].video_url]_vars

C17_Witness ==
    /\ ret.op = "add"
    /\ ret.found = 2
    /\ ret.added = 0
    /\ \E row \in Rows :
           /\ row.status = "completed"
           /\ row.channel_url = SingleVideo
           /\ row.download_path # NULL
    /\ \E row \in Rows :
           /\ row.status = "failed"
           /\ row.error_msg # NULL

\* C18: a status update for a URL that has no row (the job was deleted
\* while its download was running) raises nothing, creates no row and
\* changes no job; an update for a stored URL changes the rows of that URL
\* only.
C18_UpdateOfMissingRowIsNoOp ==
    [][(pc \in {"fetch", "download"} /\ pc' \notin {"fetch", "download"}) =>
          /\ ret'.op = "download"
          /\ Len(videos') = Len(videos)
          /\ \A i \in DOMAIN videos :
                 videos[i].video_url # cur.video_url => videos'[i] = videos[i]
          /\ (\A row \in Rows : row.video_url # cur.video_url)
                 => videos' = videos]_vars

C18_Witness ==
    /\ ret.op = "download"
    /\ mode = "batch"
    /\ pc = "loop"
    /\ Len(attempted) = 1
    /\ Len(pending) = 2
    /\ ret.ok
    /\ videos = <<>>

\* the URLs of a list of (video_url, video_id) pairs
UrlsOf(list) == [i \in DOMAIN list |-> list[i].video_url]

\* C19: a batch run that goes ahead reads every pending job in insertion
\* order, attempts the jobs of that list one at a time, each once and in
\* that order, and, its subprocesses ending, comes to its end; at its end
\* every job of the list is completed or failed.
C19_BatchRunsEveryPendingJobOnce ==
    /\ [][(mode = "none" /\ mode' = "batch") =>
             LET rows == SelectSeq(videos, LAMBDA row : row.status = "pending")
             IN  /\ UrlsOf(pending') = UrlsOf(rows)
                 /\ attempted' = <<>>]_vars
    /\ [](mode = "batch" =>
             /\ attempted = SubSeq(UrlsOf(pending), 1, Len(attempted))
             /\ \A i \in DOMAIN pending, j \in DOMAIN pending :
                    pending[i].video_url = pending[j].video_url => i = j
             /\ (pc \in {"fetch", "download"}) = (cur # NoCall)
             /\ cur # NoCall => cur.video_url = attempted[Len(attempted)])
    /\ [][(mode = "batch" /\ mode' = "none") =>
             /\ attempted = UrlsOf(pending)
             /\ \A i \in DOMAIN pending :
                    \E row \in Rows :
                        /\ row.video_url = pending[i].video_url
                        /\ row.status \in Terminal]_vars
    /\ (mode = "batch") ~> (mode = "none")

C19_Witness ==
    /\ ret.op = "batch_done"
    /\ Len(videos) = 2
    /\ videos[1].status = "failed"
    /\ videos[2].status = "completed"
    /\ videos[2].custom_filename # NULL

\* C20: the batch of a playlist command holds exactly the pending jobs
\* stored under the playlist's scope; the command changes no job already
\* stored, so a video of the playlist stored under another scope keeps its
\* scope and is not in the batch; a batch run attempts the jobs of its list
\* only and changes no other job.
C20_ScopedBatchStaysInScope ==
    /\ [][(pc = "idle" /\ ret'.op = "playlist") =>
             /\ \A i \in DOMAIN videos :
                    i \in DOMAIN videos' /\ videos'[i] = videos[i]
             /\ ret'.outcome = "started" =>
                    UrlsOf(pending')
                        = UrlsOf(SelectSeq(videos', LAMBDA row :
                              row.status = "pending"
                                  /\ row.channel_url = ret'.scope))
             /\ ret'.outcome # "started" => pending' = <<>>]_vars
    /\ [](mode = "batch" =>
             \A k \in DOMAIN attempted :
                 \E i \in DOMAIN pending : pending[i].video_url = attempted[k])
    /\ [][mode = "batch" =>
             \A i \in DOMAIN videos :
                 (i \in DOMAIN videos' /\ videos'[i] # videos[i])
                     => \E k \in DOMAIN attempted :
                            attempted[k] = videos[i].video_url]_vars

C20_Witness ==
    /\ ret.op = "playlist"
    /\ ret.outcome = "started"
    /\ ret.found = 2
    /\ ret.added = 1
    /\ Len(pending) = 1
    /\ Len(videos) = 2
    /\ videos[1].channel_url = Chan1
    /\ videos[1].status = "pending"
    /\ videos[2].channel_url = Playlist1
    /\ pending[1].video_url = videos[2].video_url

====
